---------------------------- MODULE Spec2Model ----------------------------
(***************************************************************************)
(* A model of razee, a small node package installer written in Rust.      *)
(*                                                                         *)
(*   src/src/main.rs         resolve_version, fetch_dep, fetch_tarball,    *)
(*                           process_dep, main                             *)
(*   src/src/http_client.rs  HttpClient and its three FrozenMap caches     *)
(*                                                                         *)
(* The module holds four specifications over one set of variables:         *)
(*   SpecResolve  resolve_version as a function of a registry index held   *)
(*                in a HashMap and of a range                              *)
(*   SpecClient   concurrent callers of HttpClient's three fetch methods   *)
(*   SpecInstall  fetch_tarball of main.rs on a file system                *)
(*   Spec         main and the recursive, concurrent process_dep visits    *)
(***************************************************************************)
EXTENDS Integers, Sequences, FiniteSets, TLC

VARIABLES
    \* ---- SpecResolve
    rv_listing,     \* the keys of the index's "time" object, in document order
    rv_range,       \* the requested range
    rv_results,     \* the results of the calls of resolve_version made so far
    \* ---- SpecClient
    callers,        \* each caller of an HttpClient method: where it is, what it asked
    package_cache,  \* HttpClient.package_cache
    dependency_cache, \* HttpClient.dependency_cache
    tarball_cache,  \* HttpClient.tarball_cache
    requests,       \* GET requests sent so far, per URL
    client_panicked, \* an expect or unwrap of HttpClient failed
    \* ---- SpecInstall (and Spec)
    fs_files,       \* the regular files on disk: path -> what wrote it
    fs_dirs,        \* the directories on disk
    inst,           \* the running call of fetch_tarball
    inst_log,       \* what the last call of fetch_tarball found and did
    \* ---- Spec
    scenario,       \* the registry and root package.json of the run
    main_pc,        \* where main is
    visits,         \* the calls of process_dep, in the order they were made
    processed_deps  \* ProcessedDeps: name -> Dep

rvVars == <<rv_listing, rv_range, rv_results>>
clVars ==
    <<callers, package_cache, dependency_cache, tarball_cache, requests, client_panicked>>

fsVars == <<fs_files, fs_dirs>>
instVars == <<inst, inst_log>>

vars ==
    <<rv_listing, rv_range, rv_results,
      callers, package_cache, dependency_cache, tarball_cache, requests, client_panicked,
      fs_files, fs_dirs, inst, inst_log,
      scenario, main_pc, visits, processed_deps>>

walkVars == <<scenario, main_pc, visits, processed_deps>>

(***************************************************************************)
(* Bounds of the model.                                                    *)
(***************************************************************************)
MaxKeys == 3        \* keys of one index document
MaxCalls == 2       \* calls of resolve_version on one index
NumCallers == 2     \* concurrent callers of HttpClient
NumResources == 1    \* URLs of one kind that are asked for
NumBodies == 2      \* distinct documents the server may answer with for one URL
MaxEntries == 2     \* entries of one archive
MaxRuns == 2        \* calls of fetch_tarball, one after the other

(***************************************************************************)
(* Small helpers.                                                          *)
(***************************************************************************)
Range(f) == {f[i] : i \in DOMAIN f}

\* every sequence that lists the elements of S once each
Orders(S) ==
    {s \in [1..Cardinality(S) -> S] : \A i, j \in DOMAIN s : i # j => s[i] # s[j]}

\* every sequence of at most n distinct elements of S
ListingsUpTo(S, n) ==
    UNION {Orders(T) : T \in {U \in SUBSET S : Cardinality(U) <= n}}

(***************************************************************************)
(* Versions and ranges (node_semver).  A version is <<major, minor,        *)
(* patch>>; a range is an operator and a version.                          *)
(***************************************************************************)
VersionUniverse ==
    {<<1, 0, 0>>, <<1, 2, 0>>, <<1, 3, 0>>, <<1, 3, 1>>, <<2, 0, 0>>}

RangeOps == {"^", "~", "=", "*"}

Ranges ==
    {[op |-> o, ver |-> v] : o \in {"^", "~", "="}, v \in VersionUniverse}
        \cup {[op |-> "*", ver |-> <<0, 0, 0>>]}

\* Version's Ord: by major, then minor, then patch
VersionLess(a, b) ==
    \/ a[1] < b[1]
    \/ a[1] = b[1] /\ a[2] < b[2]
    \/ a[1] = b[1] /\ a[2] = b[2] /\ a[3] < b[3]

VersionLeq(a, b) == a = b \/ VersionLess(a, b)

\* the exclusive upper end of ^v and of ~v
CaretUpper(v) ==
    IF v[1] > 0 THEN <<v[1] + 1, 0, 0>>
    ELSE IF v[2] > 0 THEN <<0, v[2] + 1, 0>>
    ELSE <<0, 0, v[3] + 1>>

TildeUpper(v) == <<v[1], v[2] + 1, 0>>

\* Range::satisfies
Satisfies(r, v) ==
    CASE r.op = "*" -> TRUE
      [] r.op = "=" -> v = r.ver
      [] r.op = "^" -> VersionLeq(r.ver, v) /\ VersionLess(v, CaretUpper(r.ver))
      [] r.op = "~" -> VersionLeq(r.ver, v) /\ VersionLess(v, TildeUpper(r.ver))

(***************************************************************************)
(* The registry index: RegistryPackage.time, a HashMap from a key to a     *)
(* timestamp.  A key is a published version ("1.2.0") or a metadata tag    *)
(* ("created", "modified").                                                *)
(***************************************************************************)
VersionKey(v) == [kind |-> "version", ver |-> v]
MetaKey(s) == [kind |-> s, ver |-> <<0, 0, 0>>]

TimeKeys ==
    {VersionKey(v) : v \in VersionUniverse} \cup {MetaKey("created"), MetaKey("modified")}

\* |version| version.contains(".")
ContainsDot(k) == k.kind = "version"

\* Version::parse(v).unwrap()
VersionParse(k) == k.ver

\* the iteration orders of a HashMap holding the keys of a document: the
\* order of HashMap::keys() is that of the map's hasher, not of the document
HashMapOrders(listing) == Orders(Range(listing))

\* package.time.keys().filter(..).map(..), over one iteration order
dep_versions(keys) ==
    LET dotted == SelectSeq(keys, ContainsDot)
    IN  [i \in 1..Len(dotted) |-> VersionParse(dotted[i])]

\* Iterator::find: the index of the first element that satisfies, or 0
RECURSIVE FindSatisfying(_, _, _)
FindSatisfying(vs, r, i) ==
    IF i > Len(vs) THEN 0
    ELSE IF Satisfies(r, vs[i]) THEN i
    ELSE FindSatisfying(vs, r, i + 1)

\* Iterator::max: the last of the greatest elements
RECURSIVE IterMaxFrom(_, _, _)
IterMaxFrom(vs, best, i) ==
    IF i > Len(vs) THEN best
    ELSE IterMaxFrom(vs, IF VersionLeq(best, vs[i]) THEN vs[i] ELSE best, i + 1)

IterMax(vs) == IterMaxFrom(vs, vs[1], 2)

Returned(v) == [panic |-> FALSE, version |-> v]
Panicked == [panic |-> TRUE, version |-> <<0, 0, 0>>]

\* the fallback of resolve_version, taken when no version satisfies
FallbackFirst(vs) ==
    IF Len(vs) = 0 THEN Panicked ELSE Returned(vs[1])

Fallback(vs) ==
    IF Len(vs) = 1 THEN Returned(vs[1])
    ELSE IF Len(vs) = 0 THEN Panicked      \* versions.get(0).expect(msg)
    ELSE Returned(IterMax(vs))

\* resolve_version over the iteration order keys of package.time
resolve_version(keys, requested_version) ==
    LET vs == dep_versions(keys)
        i == FindSatisfying(vs, requested_version, 1)
    IN  IF i # 0 THEN Returned(vs[i]) ELSE Fallback(vs)

(***************************************************************************)
(* HttpClient (http_client.rs).  A resource is what the URL of a request   *)
(* names; each cache is a FrozenMap from the URL to the boxed response.    *)
(* A response is a status and a body; body 0 is a body that is no JSON     *)
(* document of the expected shape.                                         *)
(***************************************************************************)
Callers == 1..NumCallers
Resources == 1..NumResources
Bodies == 1..NumBodies
Garbage == 0

\* what send() comes back with: 200 OK, a success status other than 200
\* (203), a non-success status (404), or the Err of a request that failed
Statuses == {"OK", "NonAuthoritative", "NotFound", "NoInternet"}

\* StatusCode::is_success: the status is 2xx
is_success(status) == status \in {"OK", "NonAuthoritative"}

Responses == [status : Statuses, body : Bodies \cup {Garbage}]

Endpoints == {"package", "dependency", "latest", "tarball"}

Url(endpoint, k) == <<endpoint, k>>

EmptyMap == [k \in {} |-> 0]

\* HashMap::insert: the value is replaced
HashMapInsert(cache, k, v) == [x \in DOMAIN cache \cup {k} |-> IF x = k THEN v ELSE cache[x]]

\* FrozenMap::insert: entry(k).or_insert(v); a value already stored stays
FrozenInsert(cache, k, v) ==
    IF k \in DOMAIN cache THEN cache
    ELSE [x \in DOMAIN cache \cup {k} |-> IF x = k THEN v ELSE cache[x]]

\* a caller: where it is in which method for which key, the status its
\* request for the key was answered with, the body it took, and what it
\* returned
IdleCaller ==
    [pc |-> "idle", op |-> "none", key |-> 0, status |-> "none", got |-> -1, ret |-> -1]

ClientIdle ==
    /\ callers = [c \in Callers |-> IdleCaller]
    /\ package_cache = EmptyMap
    /\ dependency_cache = EmptyMap
    /\ tarball_cache = EmptyMap
    /\ requests = [u \in Endpoints \X Resources |-> 0]
    /\ client_panicked = FALSE

Send(u) == requests' = [requests EXCEPT ![u] = @ + 1]

\* the lookup that opens each method: a hit returns, a miss sends the GET
CacheLookup(c, op, k, cache) ==
    /\ ~client_panicked
    /\ callers[c].pc = "idle"
    /\ IF k \in DOMAIN cache
       THEN /\ callers' = [callers EXCEPT ![c] =
                   [pc |-> "done", op |-> op, key |-> k, status |-> "none", got |-> -1,
                    ret |-> cache[k]]]
            /\ UNCHANGED requests
       ELSE /\ callers' = [callers EXCEPT ![c] =
                   [pc |-> "sent", op |-> op, key |-> k, status |-> "none", got |-> -1,
                    ret |-> -1]]
            /\ Send(Url(op, k))
    /\ UNCHANGED <<package_cache, dependency_cache, tarball_cache, client_panicked>>

Panic(c) ==
    /\ client_panicked' = TRUE
    /\ callers' = [callers EXCEPT ![c].pc = "panicked"]
    /\ UNCHANGED <<package_cache, dependency_cache, tarball_cache, requests>>

Return(c, resp, cache) ==
    callers' = [callers EXCEPT ![c].pc = "done", ![c].status = resp.status,
                               ![c].got = resp.body, ![c].ret = cache[callers[c].key]]

\* fetch_package, to its first await
FetchPackageCall(c, k) ==
    /\ CacheLookup(c, "package", k, package_cache)
    /\ UNCHANGED <<rvVars, fsVars, instVars, walkVars>>

\* fetch_package, from the response on
FetchPackageResponse(c, resp) ==
    /\ ~client_panicked
    /\ callers[c].pc = "sent" /\ callers[c].op = "package"
    /\ IF resp.status = "NoInternet" \/ resp.body = Garbage
       THEN Panic(c)
       ELSE /\ package_cache' = FrozenInsert(package_cache, callers[c].key, resp.body)
            /\ Return(c, resp, package_cache')
            /\ UNCHANGED <<dependency_cache, tarball_cache, requests, client_panicked>>
    /\ UNCHANGED <<rvVars, fsVars, instVars, walkVars>>

\* a mutation of the URL below: the second GET goes to the version again
retry_same_url(k) == Url("dependency", k)

\* format!("{REGISTRY_URL}/{}/{}", dep_name, "latest")
latest_url(k) == Url("latest", k)

\* fetch_dependency, to its first await
FetchDependencyCall(c, k) ==
    /\ CacheLookup(c, "dependency", k, dependency_cache)
    /\ UNCHANGED <<rvVars, fsVars, instVars, walkVars>>

\* fetch_dependency, from the response for the version on
FetchDependencyResponse(c, resp) ==
    /\ ~client_panicked
    /\ callers[c].pc = "sent" /\ callers[c].op = "dependency"
    /\ CASE resp.status = "NoInternet" -> Panic(c)
         [] resp.status = "OK" /\ resp.body = Garbage -> Panic(c)
         [] resp.status = "OK" /\ resp.body # Garbage ->
                /\ dependency_cache' =
                       FrozenInsert(dependency_cache, callers[c].key, resp.body)
                /\ Return(c, resp, dependency_cache')
                /\ UNCHANGED <<package_cache, tarball_cache, requests, client_panicked>>
         [] OTHER ->
                /\ callers' = [callers EXCEPT ![c].pc = "sent_latest",
                                               ![c].status = resp.status]
                /\ Send(latest_url(callers[c].key))
                /\ UNCHANGED <<package_cache, dependency_cache, tarball_cache,
                               client_panicked>>
    /\ UNCHANGED <<rvVars, fsVars, instVars, walkVars>>

\* fetch_dependency, from the response for "latest" on
FetchDependencyLatestResponse(c, resp) ==
    /\ ~client_panicked
    /\ callers[c].pc = "sent_latest"
    /\ IF resp.status = "NoInternet" \/ resp.body = Garbage
       THEN Panic(c)
       ELSE /\ dependency_cache' =
                   FrozenInsert(dependency_cache, callers[c].key, resp.body)
            \* the caller keeps the status its request for the version got
            /\ Return(c, [resp EXCEPT !.status = callers[c].status], dependency_cache')
            /\ UNCHANGED <<package_cache, tarball_cache, requests, client_panicked>>
    /\ UNCHANGED <<rvVars, fsVars, instVars, walkVars>>

\* fetch_tarball of HttpClient, to its first await
FetchTarballCall(c, k) ==
    /\ CacheLookup(c, "tarball", k, tarball_cache)
    /\ UNCHANGED <<rvVars, fsVars, instVars, walkVars>>

\* fetch_tarball of HttpClient, from the response on: the body of any
\* response that arrived is the tarball
FetchTarballResponse(c, resp) ==
    /\ ~client_panicked
    /\ callers[c].pc = "sent" /\ callers[c].op = "tarball"
    /\ IF resp.status = "NoInternet"
       THEN Panic(c)
       ELSE /\ tarball_cache' = FrozenInsert(tarball_cache, callers[c].key, resp.body)
            /\ Return(c, resp, tarball_cache')
            /\ UNCHANGED <<package_cache, dependency_cache, requests, client_panicked>>
    /\ UNCHANGED <<rvVars, fsVars, instVars, walkVars>>

NextClient ==
    \E c \in Callers :
        \/ \E k \in Resources : FetchPackageCall(c, k)
        \/ \E k \in Resources : FetchDependencyCall(c, k)
        \/ \E k \in Resources : FetchTarballCall(c, k)
        \/ \E resp \in Responses : FetchPackageResponse(c, resp)
        \/ \E resp \in Responses : FetchDependencyResponse(c, resp)
        \/ \E resp \in Responses : FetchDependencyLatestResponse(c, resp)
        \/ \E resp \in Responses : FetchTarballResponse(c, resp)


(***************************************************************************)
(* Paths.  A path is the string the code handles, held as its sequence of  *)
(* pieces: "/" is the separator, "package" is the word that                *)
(* str::replace("package", ..) looks for, and every other piece is text    *)
(* holding neither ("package.json" is <<"package", ".json">>).             *)
(***************************************************************************)
NODE_MODULES == <<"node_modules">>

Foo == <<"foo">>
Bar == <<"bar">>
PackageNames == {Foo}

\* format!("{NODE_MODULES}/{dep_name}")
dep_dir(dep_name) == NODE_MODULES \o <<"/">> \o dep_name

\* str::replace("package", to): every occurrence is replaced
RECURSIVE ReplacePackage(_, _)
ReplacePackage(path, to) ==
    IF path = <<>> THEN <<>>
    ELSE (IF Head(path) = "package" THEN to ELSE <<Head(path)>>)
             \o ReplacePackage(Tail(path), to)

\* str::starts_with
StartsWith(path, prefix) ==
    Len(path) >= Len(prefix) /\ SubSeq(path, 1, Len(prefix)) = prefix

\* str::split("/"): the segments, each a sequence of pieces
RECURSIVE SplitFrom(_, _, _, _)
SplitFrom(path, i, cur, acc) ==
    IF i > Len(path) THEN Append(acc, cur)
    ELSE IF path[i] = "/" THEN SplitFrom(path, i + 1, <<>>, Append(acc, cur))
    ELSE SplitFrom(path, i + 1, Append(cur, path[i]), acc)

Split(path) == SplitFrom(path, 1, <<>>, <<>>)

\* [..].join("/")
RECURSIVE Join(_)
Join(segs) ==
    IF segs = <<>> THEN <<>>
    ELSE IF Len(segs) = 1 THEN segs[1]
    ELSE segs[1] \o <<"/">> \o Join(Tail(segs))

\* the loop that pushes a part unless it equals the part pushed last
RECURSIVE CollapseFrom(_, _, _)
CollapseFrom(parts, i, new_path) ==
    IF i > Len(parts) THEN new_path
    ELSE CollapseFrom(parts, i + 1,
             IF parts[i] = new_path[Len(new_path)] THEN new_path
             ELSE Append(new_path, parts[i]))

Collapse(path) ==
    LET parts == Split(path) IN Join(CollapseFrom(parts, 2, <<parts[1]>>))

\* the path an entry is written at
entry_path(dep_name, stored) ==
    LET path == ReplacePackage(stored, dep_dir(dep_name))
    IN  IF ~StartsWith(path, NODE_MODULES)
        THEN Collapse(dep_dir(dep_name) \o <<"/">> \o path)
        ELSE path

(***************************************************************************)
(* The file system.  The operating system resolves ".." segments; a file   *)
(* or directory is held under its resolved path, a sequence of segments.   *)
(***************************************************************************)
RECURSIVE ResolveFrom(_, _, _)
ResolveFrom(segs, i, acc) ==
    IF i > Len(segs) THEN acc
    ELSE IF segs[i] = <<"..">>
         THEN ResolveFrom(segs, i + 1,
                  IF acc # <<>> /\ acc[Len(acc)] # <<"..">>
                  THEN SubSeq(acc, 1, Len(acc) - 1)
                  ELSE Append(acc, segs[i]))
    ELSE ResolveFrom(segs, i + 1, Append(acc, segs[i]))

Resolve(segs) == ResolveFrom(segs, 1, <<>>)

Location(path) == Resolve(Split(path))

IsPrefix(a, b) == Len(a) <= Len(b) /\ SubSeq(b, 1, Len(a)) = a

\* Path::exists
Exists(files, dirs, path) ==
    LET loc == Location(path) IN loc = <<>> \/ loc \in DOMAIN files \/ loc \in dirs

\* fs::create_dir_all: every directory on the way is made
DirsOnTheWay(folders) == {Resolve(SubSeq(folders, 1, n)) : n \in 1..Len(folders)} \ {<<>>}

\* the files WalkDir finds under a directory
FilesUnder(files, dir) == {f \in DOMAIN files : IsPrefix(Location(dir), f)}

\* the counting loop over WalkDir::new(&dep_dir)
RECURSIVE CountEntries(_, _)
CountEntries(found, file_counter) ==
    IF found = {} THEN file_counter
    ELSE LET e == CHOOSE x \in found : TRUE
         IN  CountEntries(found \ {e}, file_counter + 1)

NoCount == [some |-> FALSE, n |-> 0]
SomeCount(n) == [some |-> TRUE, n |-> n]

\* a mutation of the check below: every entry WalkDir yields is counted,
\* the directories too (the is_file test is left out)
already_installed_counting_dirs(files, dirs, dep_name, file_count) ==
    /\ Exists(files, dirs, dep_dir(dep_name))
    /\ file_count.some
    /\ CountEntries(FilesUnder(files, dep_dir(dep_name))
                        \cup {d \in dirs : IsPrefix(Location(dep_dir(dep_name)), d)}, 0)
           = file_count.n

\* the check that opens fetch_tarball: the directory exists, the dist
\* declares a file count, and the directory holds that many files
already_installed(files, dirs, dep_name, file_count) ==
    /\ Exists(files, dirs, dep_dir(dep_name))
    /\ file_count.some
    /\ CountEntries(FilesUnder(files, dep_dir(dep_name)), 0) = file_count.n

(***************************************************************************)
(* Archives.  An entry is a stored path and what happens to it: "ok",      *)
(* "readerr" (the iterator of archive.entries() yields Err for it) or      *)
(* "unpackerr" (entry.unpack returns Err).                                 *)
(***************************************************************************)
StoredPaths ==
    { <<"package", "/", "index.js">>,
      <<"package", "/", "package", ".json">>,
      <<"node_modules", "/", "bar", "/", "index.js">>,
      <<"package", "/", "..", "/", "..", "/", "evil.js">>,
      <<"foo", "/", "index.js">> }

EntryStates == {"ok", "readerr", "unpackerr"}

Entries == [path : StoredPaths, state : EntryStates]

\* the archives of the model: distinct stored paths, at most one bad entry
Archives ==
    {a \in UNION {[1..n -> Entries] : n \in 0..MaxEntries} :
        /\ \A i, j \in DOMAIN a : i # j => a[i].path # a[j].path
        /\ Cardinality({i \in DOMAIN a : a[i].state # "ok"}) <= 1}

FileCounts == {NoCount} \cup {SomeCount(n) : n \in 0..MaxEntries}

\* a mutation of the body below: the file is unpacked whether or not the
\* path exists
write_entry_overwriting(st, entry, content, path, folders) ==
      LET made == IF Len(folders) > 1 THEN DirsOnTheWay(folders) ELSE {}
          dirs == st.dirs \cup made
          loc == Location(path)
      IN  IF made \cap DOMAIN st.files # {} THEN [st EXCEPT !.panic = TRUE]
          ELSE [st EXCEPT !.dirs = dirs, !.created = @ \cup (made \ st.dirs),
                          !.files = [f \in DOMAIN st.files \cup {loc} |->
                                        IF f = loc THEN content ELSE st.files[f]],
                          !.written = @ \cup {loc}]

\* the body of the loop over archive.entries() for one entry, from the
\* rewritten path on: the folders are made and the file is unpacked unless it
\* exists; st is the disk, what this call wrote and made, and whether an
\* unwrap has panicked
write_entry(st, entry, content, path, folders) ==
      LET made == IF Len(folders) > 1 THEN DirsOnTheWay(folders) ELSE {}
          \* create_dir_all fails where a file stands in the way
          mkdir_fails == made \cap DOMAIN st.files # {}
          dirs == st.dirs \cup made
          loc == Location(path)
          parent == Resolve(folders)
      IN  IF mkdir_fails THEN [st EXCEPT !.panic = TRUE]
          ELSE IF Exists(st.files, dirs, path)
               THEN [st EXCEPT !.dirs = dirs, !.created = @ \cup (made \ st.dirs)]
          ELSE IF entry.state = "unpackerr" \/ ~(parent = <<>> \/ parent \in dirs)
               THEN [st EXCEPT !.dirs = dirs, !.created = @ \cup (made \ st.dirs),
                               !.panic = TRUE]
          ELSE [st EXCEPT !.dirs = dirs, !.created = @ \cup (made \ st.dirs),
                          !.files = [f \in DOMAIN st.files \cup {loc} |->
                                        IF f = loc THEN content ELSE st.files[f]],
                          !.written = @ \cup {loc}]

\* the body of the loop over archive.entries() for one entry
extract_entry(st, dep_name, entry, content) ==
    IF entry.state = "readerr" THEN st          \* if let Ok(mut entry) = entry
    ELSE CHOOSE r \in
             {write_entry(st, entry, content, path,
                          SubSeq(Split(path), 1, Len(Split(path)) - 1)) :
                  path \in {entry_path(dep_name, entry.path)}} : TRUE

\* for entry in archive.entries().unwrap() { .. }
RECURSIVE extract_from(_, _, _, _, _)
extract_from(st, dep_name, archive, i, content) ==
    IF i > Len(archive) \/ st.panic THEN st
    ELSE \* the state after entry i is bound once, through a singleton set
         CHOOSE r \in {extract_from(next, dep_name, archive, i + 1, content) :
                          next \in {extract_entry(st, dep_name, archive[i], content)}} : TRUE

extract(files, dirs, dep_name, archive, content) ==
    extract_from([files |-> files, dirs |-> dirs, written |-> {}, created |-> {},
                  panic |-> FALSE],
                 dep_name, archive, 1, content)

(***************************************************************************)
(* SpecInstall: fetch_tarball of main.rs, called MaxRuns times one after   *)
(* the other on one disk, each time for a package name, a dist and the     *)
(* archive its tarball URL serves.  What a call writes is marked with the  *)
(* number of the call.                                                     *)
(***************************************************************************)
NoInstall == [pc |-> "idle", dep_name |-> <<>>]

NoLog ==
    [run |-> 0, matched |-> FALSE, requests |-> 0, written |-> {}, created |-> {},
     bad_entry |-> FALSE, archive |-> <<>>]

InstallIdle ==
    /\ fs_files = EmptyMap
    /\ fs_dirs = {}
    /\ inst = NoInstall
    /\ inst_log = NoLog

\* the directory of the package holds exactly the declared number of files
PopulatedAsDeclared(dep_name, file_count) ==
    /\ Location(dep_dir(dep_name)) \in fs_dirs
    /\ file_count.some
    /\ Cardinality({f \in DOMAIN fs_files : IsPrefix(Location(dep_dir(dep_name)), f)})
           = file_count.n

\* fetch_tarball, to its first await: the check of the directory, and the
\* GET of the tarball when the check does not return
InstallCall(dep_name, file_count) ==
    /\ inst.pc # "fetching"
    /\ inst_log.run < MaxRuns
    /\ IF already_installed(fs_files, fs_dirs, dep_name, file_count)
       THEN /\ inst' = [pc |-> "done", dep_name |-> dep_name]
            /\ inst_log' = [NoLog EXCEPT !.run = inst_log.run + 1,
                                         !.matched = PopulatedAsDeclared(dep_name, file_count)]
       ELSE /\ inst' = [pc |-> "fetching", dep_name |-> dep_name]
            /\ inst_log' = [NoLog EXCEPT !.run = inst_log.run + 1,
                                         !.matched = PopulatedAsDeclared(dep_name, file_count),
                                         !.requests = 1]
    /\ UNCHANGED <<fsVars, rvVars, clVars, walkVars>>

\* fetch_tarball, from the response on: the loop over the entries
InstallResponse(arrived, archive) ==
    /\ inst.pc = "fetching"
    /\ IF ~arrived
       THEN /\ inst' = [inst EXCEPT !.pc = "panicked"]      \* send().await.unwrap()
            /\ UNCHANGED <<fsVars, inst_log>>
       ELSE \E st \in {extract(fs_files, fs_dirs, inst.dep_name, archive, inst_log.run)} :
                /\ fs_files' = st.files
                /\ fs_dirs' = st.dirs
                /\ inst' = [inst EXCEPT !.pc = IF st.panic THEN "panicked" ELSE "done"]
                /\ inst_log' = [inst_log EXCEPT
                       !.written = st.written,
                       !.created = st.created,
                       !.bad_entry = \E i \in DOMAIN archive : archive[i].state # "ok",
                       !.archive = archive]
    /\ UNCHANGED <<rvVars, clVars, walkVars>>

NextInstall ==
    \/ \E dep_name \in PackageNames, file_count \in FileCounts :
          InstallCall(dep_name, file_count)
    \/ \E arrived \in BOOLEAN, archive \in Archives : InstallResponse(arrived, archive)

(***************************************************************************)
(* The claims about fetch_tarball, checked under SpecInstall.              *)
(***************************************************************************)
InstalledDir == Location(dep_dir(inst.dep_name))

\* C8: a call made for a package whose directory exists and holds exactly
\* the declared number of files returns at once: it sends no request, writes
\* no file and makes no directory.
C8_IdempotentReinstall ==
    inst_log.matched =>
        /\ inst.pc = "done"
        /\ inst_log.requests = 0
        /\ inst_log.written = {}
        /\ inst_log.created = {}

\* C8's case: the second call, on a directory that the first call filled
\* with the declared number of files (at least one).
C8_Witness ==
    /\ inst_log.matched
    /\ inst_log.run = 2
    /\ \E f \in DOMAIN fs_files : IsPrefix(InstalledDir, f) /\ fs_files[f] = 1

\* C9: every file a call writes and every directory it makes lies under the
\* directory of the package it installs (or is a directory on the way to it).
C9_InstallContained ==
    /\ \A f \in inst_log.written : IsPrefix(InstalledDir, f)
    /\ \A d \in inst_log.created : IsPrefix(InstalledDir, d) \/ IsPrefix(d, InstalledDir)

\* C10: a call never ends as done when an entry of the archive could not be
\* read or unpacked.
C10_EntryFailureFatal == inst.pc = "done" => ~inst_log.bad_entry

\* where the entry stored as package/<rel> belongs: installRoot/name/<rel>
Rel(stored) == SubSeq(stored, 3, Len(stored))

Wrapped(stored) == StartsWith(stored, <<"package", "/">>)

\* C15: when a call has returned, every entry of the archive that is stored
\* as package/<rel> and was read and unpacked well is a file at
\* node_modules/<name>/<rel>, with <rel> as it was stored.
C15_PathMapping ==
    inst.pc = "done" =>
        \A i \in DOMAIN inst_log.archive :
            (inst_log.archive[i].state = "ok" /\ Wrapped(inst_log.archive[i].path)) =>
                Location(dep_dir(inst.dep_name) \o <<"/">> \o Rel(inst_log.archive[i].path))
                    \in DOMAIN fs_files

\* C16: a file that exists is never changed and never removed by a later
\* entry or a later call: its content stays what it was first written with.
C16_ExistingFileKept ==
    [][\A f \in DOMAIN fs_files :
          f \in DOMAIN fs_files' /\ fs_files'[f] = fs_files[f]]_vars

\* C16's case: the second call has gone through an archive with an entry
\* whose path the first call had written, and the file is still the first
\* call's.
C16_Witness ==
    /\ inst.pc = "done" /\ inst_log.run = 2
    /\ inst_log.written # {}
    /\ \E i \in DOMAIN inst_log.archive :
          /\ inst_log.archive[i].state = "ok"
          /\ LET f == Location(entry_path(inst.dep_name, inst_log.archive[i].path))
             IN  f \in DOMAIN fs_files /\ fs_files[f] = 1

(***************************************************************************)
(* The registry and the root package.json of a run of main.  A scenario    *)
(* fixes, for each package name, the keys of its index, and for each       *)
(* version its manifest (Dependency) and the archive its tarball holds.    *)
(***************************************************************************)
Scenarios == {"fanout", "cycle", "rootdup", "selfdep"}

Caret(v) == [op |-> "^", ver |-> v]
Tilde(v) == [op |-> "~", ver |-> v]

NoDeps == [n \in {} |-> Caret(<<0, 0, 0>>)]

\* Package: the root package.json
RootPackage(g) ==
    CASE g = "fanout" ->
             [dependencies |-> [n \in {"A", "B"} |-> Caret(<<1, 0, 0>>)],
              dev_dependencies |-> NoDeps]
      [] g = "cycle" ->
             [dependencies |-> [n \in {"A"} |-> Caret(<<1, 0, 0>>)],
              dev_dependencies |-> [n \in {"B"} |-> Caret(<<1, 0, 0>>)]]
      [] g = "rootdup" ->
             [dependencies |-> [n \in {"C"} |-> Caret(<<1, 0, 0>>)],
              dev_dependencies |-> [n \in {"C"} |-> Tilde(<<1, 2, 0>>)]]
      [] g = "selfdep" ->
             [dependencies |-> [n \in {"A"} |-> Caret(<<1, 0, 0>>)],
              dev_dependencies |-> NoDeps]

\* RegistryPackage.time of a name, in the order of the document
IndexListing(g, name) ==
    IF name = "C"
    THEN <<MetaKey("created"), VersionKey(<<1, 0, 0>>), VersionKey(<<1, 2, 0>>),
           MetaKey("modified")>>
    ELSE <<MetaKey("created"), VersionKey(<<1, 0, 0>>), MetaKey("modified")>>

\* the archive behind dist.tarball of a version
ArchiveOf(g, name, version) ==
    IF version = <<1, 2, 0>>
    THEN <<[path |-> <<"package", "/", "index.js">>, state |-> "ok"],
           [path |-> <<"package", "/", "lib.js">>, state |-> "ok"]>>
    ELSE <<[path |-> <<"package", "/", "index.js">>, state |-> "ok"]>>

\* Dependency: the manifest of one version
ManifestOf(g, name, version) ==
    [name |-> name,
     version |-> version,
     dependencies |->
         CASE g = "fanout" /\ name = "A" -> [n \in {"C"} |-> Caret(<<1, 0, 0>>)]
           [] g = "fanout" /\ name = "B" -> [n \in {"C"} |-> Tilde(<<1, 2, 0>>)]
           [] g = "cycle" /\ name = "A" -> [n \in {"B"} |-> Caret(<<1, 0, 0>>)]
           [] g = "cycle" /\ name = "B" -> [n \in {"A"} |-> Caret(<<1, 0, 0>>)]
           [] g = "selfdep" /\ name = "A" -> [n \in {"A", "B"} |-> Caret(<<1, 0, 0>>)]
           [] g = "selfdep" /\ name = "B" -> [n \in {"B"} |-> Caret(<<1, 0, 0>>)]
           [] OTHER -> NoDeps,
     dev_dependencies |->
         IF g = "rootdup" /\ name = "C" THEN [n \in {"A"} |-> Caret(<<1, 0, 0>>)]
         ELSE NoDeps,
     dist |-> [file_count |-> SomeCount(Len(ArchiveOf(g, name, version)))]]

(***************************************************************************)
(* main and process_dep.  A visit is one call of process_dep; join_all     *)
(* polls the visits of one vector in turn, and a visit runs from one await *)
(* to the next without interruption.                                       *)
(***************************************************************************)
Dep(name, version) == [name |-> name, version |-> version]

\* deps.iter() / into_iter(): the entries of a map, as a vector
RECURSIVE DepsOf(_)
DepsOf(map) ==
    IF DOMAIN map = {} THEN <<>>
    ELSE LET n == CHOOSE x \in DOMAIN map : TRUE
         IN  <<Dep(n, map[n])>> \o DepsOf([x \in DOMAIN map \ {n} |-> map[x]])

\* a visit as join_all leaves it after its first poll: the GET of the index
\* is sent; installed tells that its fetch_tarball has returned
NewVisit(dep, parent) ==
    [name |-> dep.name, version |-> dep.version, parent |-> parent,
     pc |-> "await_index", resolved |-> <<0, 0, 0>>, needs_processing |-> <<>>,
     installed |-> FALSE]

\* join_all(needs_processing.iter().map(|dep| process_dep(dep, ..)))
Spawned(needs_processing, parent) ==
    [i \in 1..Len(needs_processing) |-> NewVisit(needs_processing[i], parent)]

\* a mutation of the join below: the future completes without its children
ChildrenNotAwaited(i) == {}

\* the visits that the join_all of visit i (of main, for 0) awaits
ChildrenOf(i) == {j \in DOMAIN visits : visits[j].parent = i}

WalkIdle ==
    /\ scenario = "none"
    /\ main_pc = "idle"
    /\ visits = <<>>
    /\ processed_deps = [n \in {} |-> Dep("", Caret(<<0, 0, 0>>))]

InitWalk ==
    /\ scenario \in Scenarios
    /\ main_pc = "start"
    /\ visits = <<>>
    /\ processed_deps = [n \in {} |-> Dep("", Caret(<<0, 0, 0>>))]

\* a mutation of the unwinding below: the panic ends the visit alone, as
\* the panic of a task of its own would, and the others go on
visit_fails_alone(i) ==
    /\ visits' = [visits EXCEPT ![i].pc = "panicked"]
    /\ UNCHANGED main_pc

\* an unwrap or expect of a visit panics: the visits are all polled within
\* the one future of main, so the panic unwinds through join_all and main
unwind(i) ==
    /\ visits' = [visits EXCEPT ![i].pc = "panicked"]
    /\ main_pc' = "panicked"

\* main, to the await of join_all
MainStart ==
    /\ main_pc = "start"
    /\ LET package == RootPackage(scenario)
           needs_processing ==
               DepsOf(package.dependencies) \o DepsOf(package.dev_dependencies)
       IN  visits' = Spawned(needs_processing, 0)
    /\ main_pc' = "joining"
    /\ UNCHANGED <<scenario, processed_deps, fsVars, instVars, rvVars, clVars>>

\* fetch_dep, from the index's arrival to the GET of the manifest
RecvIndex(i, keys) ==
    /\ main_pc = "joining"
    /\ visits[i].pc = "await_index"
    /\ LET resolved_version == resolve_version(keys, visits[i].version)
       IN  IF resolved_version.panic
           THEN unwind(i)
           ELSE /\ visits' = [visits EXCEPT ![i].pc = "await_manifest",
                                             ![i].resolved = resolved_version.version]
                /\ UNCHANGED main_pc
    /\ UNCHANGED <<scenario, processed_deps, fsVars, instVars, rvVars, clVars>>

\* fetch_dep, when the GET of the index came back as an Err or with a body
\* that is no RegistryPackage: expect panics
RecvIndexFails(i) ==
    /\ main_pc = "joining"
    /\ visits[i].pc = "await_index"
    /\ unwind(i)
    /\ UNCHANGED <<scenario, processed_deps, fsVars, instVars, rvVars, clVars>>

\* fetch_dep, when the GET of the manifest came back as an Err or with a
\* body that is no Dependency: expect or unwrap panics
RecvManifestFails(i) ==
    /\ main_pc = "joining"
    /\ visits[i].pc = "await_manifest"
    /\ unwind(i)
    /\ UNCHANGED <<scenario, processed_deps, fsVars, instVars, rvVars, clVars>>

\* a mutation of the choice below: the map is not looked at
needs_processing_unchecked(package, processed) == DepsOf(package.dependencies)

\* the children a visit goes on to make: the dependencies of the manifest
\* whose name is not a key of processed
needs_processing_of(package, processed) ==
    SelectSeq(DepsOf(package.dependencies), LAMBDA d : d.name \notin DOMAIN processed)

\* a mutation of the insert below: the name is not recorded
processed_not_recorded(processed, dep) == processed

\* processed.insert(dep.name.clone(), dep.clone())
processed_insert(processed, dep) ==
    [n \in DOMAIN processed \cup {dep.name} |->
        IF n = dep.name THEN dep ELSE processed[n]]

\* process_dep, from the manifest's arrival: the insert into processed_deps,
\* the choice of the children, and fetch_tarball to its await (or through
\* its early return, and then the children are made)
RecvManifest(i) ==
    /\ main_pc = "joining"
    /\ visits[i].pc = "await_manifest"
    /\ LET dep == Dep(visits[i].name, visits[i].version)
           package == ManifestOf(scenario, visits[i].name, visits[i].resolved)
           processed == processed_insert(processed_deps, dep)
           needs_processing == needs_processing_of(package, processed)
       IN  /\ processed_deps' = processed
           /\ IF already_installed(fs_files, fs_dirs, <<package.name>>, package.dist.file_count)
              THEN visits' = [visits EXCEPT ![i].pc = "await_children",
                                            ![i].installed = TRUE]
                                 \o Spawned(needs_processing, i)
              ELSE visits' = [visits EXCEPT ![i].pc = "await_tarball",
                                            ![i].needs_processing = needs_processing]
    /\ UNCHANGED <<scenario, main_pc, fsVars, instVars, rvVars, clVars>>

\* fetch_tarball, from the tarball's arrival: the entries are written, and
\* back in process_dep the children are made
RecvTarball(i) ==
    /\ main_pc = "joining"
    /\ visits[i].pc = "await_tarball"
    /\ \E st \in {extract(fs_files, fs_dirs, <<visits[i].name>>,
                           ArchiveOf(scenario, visits[i].name, visits[i].resolved),
                           visits[i].resolved)} :
           /\ fs_files' = st.files
           /\ fs_dirs' = st.dirs
           /\ IF st.panic
              THEN unwind(i)
              ELSE /\ visits' = [visits EXCEPT ![i].pc = "await_children",
                                                ![i].needs_processing = <<>>,
                                                ![i].installed = TRUE]
                                    \o Spawned(visits[i].needs_processing, i)
                   /\ UNCHANGED main_pc
    /\ UNCHANGED <<scenario, processed_deps, instVars, rvVars, clVars>>

\* process_dep returns: join_all of its children has completed
VisitJoin(i) ==
    /\ main_pc = "joining"
    /\ visits[i].pc = "await_children"
    /\ \A j \in ChildrenOf(i) : visits[j].pc = "done"
    /\ visits' = [visits EXCEPT ![i].pc = "done"]
    /\ UNCHANGED <<scenario, main_pc, processed_deps, fsVars, instVars, rvVars, clVars>>

\* main, from the completion of join_all: the count is printed
MainFinish ==
    /\ main_pc = "joining"
    /\ \A j \in ChildrenOf(0) : visits[j].pc = "done"
    /\ main_pc' = "done"
    /\ UNCHANGED <<scenario, visits, processed_deps, fsVars, instVars, rvVars, clVars>>

Next ==
    \/ MainStart
    \/ \E i \in DOMAIN visits :
          \E keys \in HashMapOrders(IndexListing(scenario, visits[i].name)) :
              RecvIndex(i, keys)
    \/ \E i \in DOMAIN visits : RecvIndexFails(i)
    \/ \E i \in DOMAIN visits : RecvManifest(i)
    \/ \E i \in DOMAIN visits : RecvManifestFails(i)
    \/ \E i \in DOMAIN visits : RecvTarball(i)
    \/ \E i \in DOMAIN visits : VisitJoin(i)
    \/ MainFinish

(***************************************************************************)
(* The claims about main and process_dep, checked under Spec.              *)
(***************************************************************************)
\* the visits of a name whose manifest has arrived: fetch_dep has run for
\* them and fetch_tarball has been called
FetchedVisits(name) ==
    {i \in DOMAIN visits :
        visits[i].name = name /\ visits[i].pc \in {"await_tarball", "await_children", "done"}}

NamesAsked == {visits[i].name : i \in DOMAIN visits}

\* C1: for every package name, at most one visit fetches the name's manifest
\* and at most one calls the archive install, however many parents or root
\* mappings ask for the name.
C1_DedupInvariant == \A name \in NamesAsked : Cardinality(FetchedVisits(name)) <= 1

\* what wrote the files now under the directory of a name
VersionsInDir(name) ==
    {fs_files[f] : f \in {x \in DOMAIN fs_files : IsPrefix(Location(dep_dir(<<name>>)), x)}}

\* C2: when the root depends on A and B and both depend on C with different
\* ranges, one version of C is resolved, fetched and installed in the run,
\* and the directory of C never holds files of two versions of C.
C2_FanOutInstallsOneVersion ==
    scenario = "fanout" =>
        /\ Cardinality({visits[i].resolved : i \in FetchedVisits("C")}) <= 1
        /\ Cardinality(VersionsInDir("C")) <= 1

\* the directory of C holds files of two versions of C in the fan-out run
FanOutMixedDirectory == scenario = "fanout" /\ Cardinality(VersionsInDir("C")) >= 2

(***************************************************************************)
(* SpecResolve: an index document and a range are given; each call         *)
(* deserializes the document into a fresh HashMap and resolves.            *)
(***************************************************************************)
ResolveIdle ==
    /\ rv_listing = <<>>
    /\ rv_range = [op |-> "*", ver |-> <<0, 0, 0>>]
    /\ rv_results = <<>>

InitResolve ==
    /\ rv_listing \in ListingsUpTo(TimeKeys, MaxKeys)
    /\ rv_range \in Ranges
    /\ rv_results = <<>>

ResolveCall ==
    /\ Len(rv_results) < MaxCalls
    /\ \E keys \in HashMapOrders(rv_listing) :
          rv_results' = Append(rv_results, resolve_version(keys, rv_range))
    /\ UNCHANGED <<rv_listing, rv_range>>
    /\ UNCHANGED <<clVars, fsVars, instVars, walkVars>>

NextResolve == ResolveCall


\* a visit has failed: an unwrap or expect of its fetch_dep has panicked
SomeVisitFailed == \E i \in DOMAIN visits : visits[i].pc = "panicked"

\* C12: once a visit has failed while resolving, no visit takes a further
\* step, no visit is started, nothing more is written, and main never gets
\* to report the count.
C12_FatalOnFirstError ==
    [][SomeVisitFailed =>
          /\ visits' = visits
          /\ processed_deps' = processed_deps
          /\ fs_files' = fs_files /\ fs_dirs' = fs_dirs
          /\ main_pc' = main_pc /\ main_pc # "done"]_vars

\* C12's case: the manifest of a visit failed to arrive or to parse while a
\* sibling was waiting for a response and a third visit had already
\* recorded its name.
C12_Witness ==
    /\ main_pc = "panicked"
    /\ \E i, j \in DOMAIN visits :
          /\ visits[i].pc = "panicked" /\ visits[i].resolved # <<0, 0, 0>>
          /\ visits[j].pc \in {"await_index", "await_manifest", "await_tarball"}
    /\ DOMAIN processed_deps # {}

\* the visits that visit i (main, for 0) has started
StartedBy(i) == {j \in DOMAIN visits : visits[j].parent = i}

\* C13: a visit is complete only when its own fetch_tarball has returned and
\* every visit it started is complete; main reports the count only when the
\* visits of the root are complete, and then no visit is in progress and
\* every name in processed_deps has been installed by the visit that
\* recorded it.
C13_StructuredJoin ==
    /\ \A i \in DOMAIN visits :
          visits[i].pc = "done" =>
              /\ visits[i].installed
              /\ \A j \in StartedBy(i) : visits[j].pc = "done"
    /\ main_pc = "done" =>
          /\ \A j \in StartedBy(0) : visits[j].pc = "done"
          /\ \A i \in DOMAIN visits : visits[i].pc = "done"
          /\ \A name \in DOMAIN processed_deps :
                \E i \in DOMAIN visits : visits[i].name = name /\ visits[i].installed

\* C13's case: main has reported the count after a visit that had started
\* a child of its own.
C13_Witness ==
    /\ main_pc = "done"
    /\ \E i, j \in DOMAIN visits : visits[j].parent = i /\ visits[i].installed
    /\ DOMAIN processed_deps # {}

\* C14: an entry of processed_deps is never removed and never overwritten:
\* the Dep stored for a name stays the one stored by the first visit that
\* recorded the name.
C14_VisitedSetAppendOnly ==
    [][\A name \in DOMAIN processed_deps :
          /\ name \in DOMAIN processed_deps'
          /\ processed_deps'[name] = processed_deps[name]]_vars

\* the manifest a visit has resolved and received
ManifestOfVisit(i) == ManifestOf(scenario, visits[i].name, visits[i].resolved)

\* the visits whose manifest has arrived and whose expansion has been made
Expanded == {i \in DOMAIN visits : visits[i].pc \in {"await_children", "done"}}

\* C18: the expansion of a visit covers the devDependencies of its manifest
\* as it covers the dependencies: when the run is complete, every name in
\* the devDependencies of a visited package has been visited.
C18_ExpansionCoversDevDependencies ==
    main_pc = "done" =>
        \A i \in Expanded :
            \A name \in DOMAIN ManifestOfVisit(i).dev_dependencies :
                name \in DOMAIN processed_deps

\* the visits a visit is nested in, from its parent up to a root visit
RECURSIVE Ancestors(_)
Ancestors(i) ==
    IF visits[i].parent = 0 THEN {}
    ELSE {visits[i].parent} \cup Ancestors(visits[i].parent)

Finished == main_pc \in {"done", "panicked"}

\* C19: on every dependency graph, those with cycles and self-dependencies
\* included, no name occurs twice on a chain of nested visits, and when
\* every request is answered in the end the run of main finishes.
C19_TerminatesOnCycles ==
    /\ [](\A i \in DOMAIN visits :
            \A j \in Ancestors(i) : visits[j].name # visits[i].name)
    /\ <>Finished

\* C19's case: a run over a graph with a cycle or a self-dependency has
\* come to its end with every visit complete.
C19_Witness ==
    /\ scenario \in {"cycle", "selfdep"}
    /\ main_pc = "done"
    /\ \E i \in DOMAIN visits : visits[i].parent # 0 /\ visits[i].pc = "done"

\* the names the root package.json asks for
RootNames ==
    DOMAIN RootPackage(scenario).dependencies
        \cup DOMAIN RootPackage(scenario).dev_dependencies

\* the visits that have recorded their name
Recorded == {i \in DOMAIN visits : visits[i].pc \in {"await_tarball", "await_children", "done"}}

\* C20: a name of the dependencies of a visit that has made its expansion
\* is the name of a child the visit started or a name some visit has
\* recorded, and every recorded name was recorded by a visit, which makes
\* the expansion of its own manifest; when the run completes, the names of
\* the root and the dependencies of every visit are all in processed_deps.
C20_TransitiveClosure ==
    /\ \A i \in Expanded :
          \A name \in DOMAIN ManifestOfVisit(i).dependencies :
              \/ \E j \in StartedBy(i) : visits[j].name = name
              \/ name \in DOMAIN processed_deps
    /\ \A name \in DOMAIN processed_deps : \E i \in Recorded : visits[i].name = name
    /\ main_pc = "done" =>
          /\ RootNames \subseteq DOMAIN processed_deps
          /\ Recorded = DOMAIN visits
          /\ \A i \in DOMAIN visits :
                DOMAIN ManifestOfVisit(i).dependencies \subseteq DOMAIN processed_deps

\* C20's case: a run has completed in which a visit skipped a dependency
\* that another visit had recorded.
C20_Witness ==
    /\ main_pc = "done"
    /\ \E i \in DOMAIN visits :
          \E name \in DOMAIN ManifestOfVisit(i).dependencies :
              /\ \A j \in StartedBy(i) : visits[j].name # name
              /\ name \in DOMAIN processed_deps

(***************************************************************************)
(* The claims about HttpClient, checked under SpecClient.                  *)
(***************************************************************************)
CacheOf(op) ==
    CASE op = "package" -> package_cache
      [] op = "dependency" -> dependency_cache
      [] op = "tarball" -> tarball_cache

\* every entry of old is in new, with the value it had
EntriesKept(old, new) == \A k \in DOMAIN old : k \in DOMAIN new /\ new[k] = old[k]

CachesKeptStep ==
    /\ EntriesKept(package_cache, package_cache')
    /\ EntriesKept(dependency_cache, dependency_cache')
    /\ EntriesKept(tarball_cache, tarball_cache')

ReturnsTheStoredValue ==
    \A c \in Callers :
        callers[c].pc = "done" =>
            /\ callers[c].key \in DOMAIN CacheOf(callers[c].op)
            /\ callers[c].ret = CacheOf(callers[c].op)[callers[c].key]

\* C3: in each of the three caches a value stored under a key is never
\* replaced or removed by any step, and every call that has returned holds
\* the value stored under its key: when two callers both missed and both
\* inserted, both hold the value written first, so no two calls for one key
\* return different values.
C3_CacheWriteOnce == [][CachesKeptStep]_vars /\ []ReturnsTheStoredValue

\* C3's case: two callers of one method for one key both missed, were answered
\* with different documents, both inserted and both returned.
C3_Witness ==
    \E c, d \in Callers :
        /\ c # d
        /\ callers[c].pc = "done" /\ callers[d].pc = "done"
        /\ callers[c].op = callers[d].op /\ callers[c].key = callers[d].key
        /\ callers[c].got \in Bodies /\ callers[d].got \in Bodies
        /\ callers[c].got # callers[d].got

\* C4: over a whole run at most one GET request is sent per URL, whatever
\* the interleaving of the callers between the cache lookup and the insert.
C4_SingleFlight == \A u \in DOMAIN requests : requests[u] <= 1

\* C11: a call of fetch_tarball that was answered with a non-success status
\* fails: it never returns, and so never hands the body of that response on
\* as the bytes of the archive.
C11_TarballErrorStatusFails ==
    \A c \in Callers :
        (callers[c].op = "tarball" /\ callers[c].pc = "done" /\ callers[c].status # "none")
            => is_success(callers[c].status)

\* the callers of fetch_dependency for a key that missed the cache, and
\* those of them whose request for the version was answered with a status
\* other than 200 OK
Missed(k) ==
    {c \in Callers :
        /\ callers[c].op = "dependency" /\ callers[c].key = k
        /\ ~(callers[c].pc = "done" /\ callers[c].got = -1)}

AnsweredNotOK(k) == {c \in Missed(k) : callers[c].status \notin {"none", "OK"}}

\* C17, the statement as it stands: fetch_dependency asks for "latest" only
\* when the response for the version had a non-success status; on a success
\* status no request to latest is made.
C17_LatestOnlyAfterFailure ==
    \A c \in Callers :
        callers[c].pc = "sent_latest" => ~is_success(callers[c].status)

\* C17, amended: a call that misses sends one GET for the version; it sends
\* one further GET, to latest, if and only if the status of the response is
\* other than 200 OK; a call that returns after that took a manifest from
\* the response of latest; and the manifest is stored under the key that
\* was asked for, whose stored value the call returns.
C17_RetryAgainstLatest ==
    /\ \A k \in Resources :
          /\ requests[Url("dependency", k)] = Cardinality(Missed(k))
          /\ requests[Url("latest", k)] = Cardinality(AnsweredNotOK(k))
    /\ \A c \in Callers :
          /\ callers[c].pc = "sent_latest" => callers[c].status \notin {"none", "OK"}
          /\ (callers[c].op = "dependency" /\ callers[c].pc = "done" /\ callers[c].got # -1) =>
                /\ callers[c].got \in Bodies
                /\ callers[c].key \in DOMAIN dependency_cache
                /\ callers[c].ret = dependency_cache[callers[c].key]

\* C17's case: a call whose request for the version was answered 404 has
\* returned a manifest after one request to latest.
C17_Witness ==
    \E c \in Callers :
        /\ callers[c].op = "dependency" /\ callers[c].pc = "done"
        /\ callers[c].status = "NotFound" /\ callers[c].got \in Bodies
        /\ requests[Url("latest", callers[c].key)] = 1
        /\ requests[Url("dependency", callers[c].key)] = 1

(***************************************************************************)
(* The claims about resolve_version, checked under SpecResolve.            *)
(***************************************************************************)
\* the published versions of the index: its keys that parse as versions
PublishedVersions == {k.ver : k \in {x \in Range(rv_listing) : x.kind = "version"}}

SatisfyingVersions == {v \in PublishedVersions : Satisfies(rv_range, v)}

IsMaximum(v, S) == v \in S /\ \A w \in S : VersionLeq(w, v)

\* the first key of the document, in its own order, that satisfies the range
FirstListedSatisfying ==
    LET vs == dep_versions(rv_listing)
    IN  vs[FindSatisfying(vs, rv_range, 1)]

C6_ResolutionDeterministic ==
    /\ \A i, j \in DOMAIN rv_results : rv_results[i] = rv_results[j]
    /\ \A i \in DOMAIN rv_results :
          SatisfyingVersions # {} => rv_results[i] = Returned(FirstListedSatisfying)

\* C7: for the range "*" and an index with at least one published version,
\* every call returns the greatest published version.
C7_WildcardSelectsLatest ==
    \A i \in DOMAIN rv_results :
        (rv_range.op = "*" /\ PublishedVersions # {}) =>
            /\ ~rv_results[i].panic
            /\ IsMaximum(rv_results[i].version, PublishedVersions)

(***************************************************************************)
(* The specifications.                                                     *)
(***************************************************************************)
InitResolveSpec == InitResolve /\ ClientIdle /\ InstallIdle /\ WalkIdle

SpecResolve == InitResolveSpec /\ [][NextResolve]_vars

InitClientSpec == ClientIdle /\ ResolveIdle /\ InstallIdle /\ WalkIdle

InitInstallSpec == InstallIdle /\ ClientIdle /\ ResolveIdle /\ WalkIdle

Init == InitWalk /\ ClientIdle /\ ResolveIdle /\ InstallIdle

Spec == Init /\ [][Next]_vars

\* every request is answered in the end, and the executor goes on polling:
\* a step that can be taken is taken
SpecLive == Init /\ [][Next]_vars /\ WF_vars(Next)

SpecInstall == InitInstallSpec /\ [][NextInstall]_vars

SpecClient == InitClientSpec /\ [][NextClient]_vars

====
